---- MODULE Spec2Model ----
(***************************************************************************)
(* Face-enrollment capture controller (CameraCapturePage, the variant      *)
(* that uploads every frame to the enrollment backend) together with the   *)
(* EnrollmentService calls it makes.                                       *)
(*                                                                         *)
(* Numbers: confidence and quality are kept in hundredths (0.9 -> 90,      *)
(* 0.85 -> 85); times are milliseconds as returned by Date.now().          *)
(* sessionId "" is 0; a ledger entry that is absent reads as 0, exactly as *)
(* `this.lastCaptureTime[bucket] || 0` does.                               *)
(***************************************************************************)
EXTENDS Integers, FiniteSets, Sequences, Bags, TLC

VARIABLES
    viewInitialized,   \* CameraCapturePage.viewInitialized
    active,            \* CameraCapturePage.active
    sessionId,         \* CameraCapturePage.sessionId (0 is "")
    poseProgress,      \* CameraCapturePage.poseProgress
    lastCaptureTime,   \* CameraCapturePage.lastCaptureTime
    analysisInterval,  \* CameraCapturePage.analysisInterval (0 is undefined)
    currentDetection,  \* CameraCapturePage.currentDetection
    stream,            \* CameraService.stream is set (the camera is held)
    now,               \* Date.now()
    timers,            \* interval timers created by setInterval and not cleared
    pendingTicks,      \* interval callbacks suspended in analyzeFrame / setTimeout(0)
    starts,            \* position of every startCapture() call
    alertOpen,         \* the "Stop Capture" alert of stopCapture() is shown
    cancels,           \* resetCapture() / cleanupCapture() calls suspended in cancelEnrollment (a bag)
    uploads,           \* capturePoseFrame() calls suspended in uploadFrame (a bag)
    completePending,   \* capturePoseFrame() calls suspended in the success toast, completed = true
    completing,        \* onEnrollmentComplete() calls suspended in completeEnrollment
    serverStatus,      \* backend: status of every session
    serverPoses,       \* backend: poses accepted in every session
    issueTime,         \* history: time of the last uploadFrame per bucket in this Active period
    cancelBegun,       \* history: sessions whose cancellation has set active = false
    cancelFinished,    \* history: a cancellation has finished and startCapture was not called since
    lastOutcome,       \* history: how the latest uploadFrame per bucket ended, if it did not mark the bucket
    event,             \* what the last step showed: a failed protocol call and the toast of its handler
    watched,           \* lastOutcome and event are being recorded
    pcShould,          \* position of the stand-alone evaluation of shouldCapturePose
    shouldCapture,     \* value returned by that evaluation
    pcPose,            \* position of the stand-alone evaluation of classifyPose
    yaw,               \* its argument yaw, in steps of 1/PoseScale degree
    pitch,             \* its argument pitch, in steps of 1/PoseScale degree
    poseBucket,        \* value returned by that evaluation
    pcDetect,          \* position of the stand-alone call of analyzeFrame
    detector,          \* which FaceDetectionService is called
    scan,              \* the video frame handed to analyzeFrame and what is found in it
    analysis,          \* how that call ended: the result returned, or the error thrown
    pcNms,             \* position of the stand-alone call of nonMaximumSuppression
    nmsFaces,          \* its argument faces
    keep,              \* the array it returns
    pcScore,           \* position of the stand-alone scoring of one candidate
    candidate,         \* the candidate: its score, size, position and pixels
    scored,            \* sizeScore, confidence and quality computed for it
    pcHead,            \* position of the stand-alone call of estimateHeadPose
    face,              \* its arguments: the box of the face and the size of the frame
    headPose,          \* the yaw and pitch it returns
    recordId,          \* media capture page: recordId ("" before ngOnInit)
    capturedMedia,     \* StorageService.capturedMedia
    isOnline,          \* NetworkService.isOnline
    request            \* the ApiService.get / post call under way

vars == << viewInitialized, active, sessionId, poseProgress, lastCaptureTime,
           analysisInterval, currentDetection, stream, now, timers,
           pendingTicks, starts, alertOpen, cancels, uploads, completePending,
           completing, serverStatus, serverPoses, issueTime, cancelBegun,
           cancelFinished, lastOutcome, event, watched, pcShould,
           shouldCapture, pcPose, yaw, pitch, poseBucket, pcDetect, detector,
           scan, analysis, pcNms, nmsFaces, keep, pcScore, candidate, scored,
           pcHead, face, headPose, recordId, capturedMedia, isOnline,
           request >>

(***************************************************************************)
(* Bounds of the model.                                                    *)
(***************************************************************************)
MaxStarts == 2        \* startCapture() calls (and so sessions and timers)
MaxInFlight == 2      \* uploadFrame requests outstanding at once
MaxTicks == 1         \* interval callbacks suspended at once
MaxCancels == 1       \* resetCapture / cleanupCapture calls suspended at once
MaxAdvances == 2      \* clock steps
StartTime == 10000    \* Date.now() when the page is constructed
ClockStep == 1000     \* one clock step, in ms
MaxFaceCount == 2     \* largest faceCount drawn
PoseWindow == 2       \* poses not yet marked that the subject may show
MaxLeaves == 2        \* cancelEnrollment requests outstanding at once when the page is left
MaxCandidates == 3    \* candidates handed to nonMaximumSuppression
MaxMedia == 3         \* items in the media store
MaxRetries == 2       \* the retries argument of get and post
PoseScale == 2        \* steps per degree in which yaw and pitch are drawn
VideoWidth == 640     \* videoWidth of a frame that has a size
VideoHeight == 480    \* videoHeight of a frame that has a size

(***************************************************************************)
(* Program constants.                                                      *)
(***************************************************************************)
MIN_FACE_CONFIDENCE == 90
MIN_QUALITY_THRESHOLD == 85
CAPTURE_COOLDOWN == 2000
FaceDetection_MIN_FACE_CONFIDENCE == 90   \* FaceDetectionService.MIN_FACE_CONFIDENCE
YawLimit == 45                            \* estimateHeadPose clamps yaw to it
NmsSize == 13                             \* side of a candidate square, in pixels
MIN_FACE_SIZE_RATIO == 80                 \* 0.08, in thousandths
MAX_FACE_SIZE_RATIO == 400                \* 0.4, in thousandths
OptimalRatio == 150                       \* optimalRatio 0.15, in thousandths
ConfidenceUnit == 3000                    \* a confidence of 1
QualityUnit == 6000                       \* a quality of 1
CanvasWidth == 720                        \* targetWidth of setupCanvas
CanvasHeight == 540                       \* targetHeight for a 4:3 video
FaceSize == 144                           \* side of a detected square, in pixels
PitchLimit == 30                          \* estimateHeadPose clamps pitch to it

Buckets == {"FRONT", "LEFT", "RIGHT", "UP", "DOWN"}
NoBucket == "none"
Sessions == 1..MaxStarts

NoProgress == [b \in Buckets |-> FALSE]
NoLedger == [b \in Buckets |-> 0]
NoOutcome == [b \in Buckets |-> "none"]

\* nothing to report for the last step
NoEvent == [what |-> "none", call |-> "none", from |-> "none",
            message |-> "none", color |-> "none"]

\* a protocol call made by `from` has failed; the handler has shown a toast
\* with this message and colour ("none": no toast)
CallEvent(what, call, from, message, color) ==
    IF watched
    THEN [what |-> what, call |-> call, from |-> from, message |-> message,
          color |-> color]
    ELSE NoEvent

\* FaceDetectionResult, without yaw and pitch (shouldCapturePose reads neither)
EmptyDetection ==
    [faceDetected |-> FALSE, faceCount |-> 0, faceConfidence |-> 0,
     faceInFrame |-> FALSE, poseBucket |-> NoBucket, quality |-> 0]

Qualifying(b) ==
    [faceDetected |-> TRUE, faceCount |-> 1, faceConfidence |-> MIN_FACE_CONFIDENCE,
     faceInFrame |-> TRUE, poseBucket |-> b, quality |-> MIN_QUALITY_THRESHOLD]

TwoFaces == [EmptyDetection EXCEPT !.faceDetected = TRUE, !.faceCount = 2]

\* the buckets in the order of the progress ring
PoseOrder == << "FRONT", "LEFT", "RIGHT", "UP", "DOWN" >>

\* The subject goes through the poses in the order of the ring: a frame shows
\* a pose that is marked already, or one of the first PoseWindow poses that
\* are not.
Presented(progress) ==
    {PoseOrder[i] : i \in {k \in 1..Len(PoseOrder) :
        \/ progress[PoseOrder[k]]
        \/ Cardinality({j \in 1..(k - 1) : ~progress[PoseOrder[j]]}) < PoseWindow}}

\* detections the analysis loop is fed with: the subject shows poses of `shown`
TickDetections(progress, shown) ==
    {Qualifying(b) : b \in Presented(progress) \cap shown}
        \cup {EmptyDetection, TwoFaces}

\* detections the stand-alone evaluation is fed with
AllDetections ==
    [faceDetected : BOOLEAN, faceCount : 0..MaxFaceCount,
     faceConfidence : {MIN_FACE_CONFIDENCE - 1, MIN_FACE_CONFIDENCE},
     faceInFrame : BOOLEAN, poseBucket : Buckets \cup {NoBucket},
     quality : {MIN_QUALITY_THRESHOLD - 1, MIN_QUALITY_THRESHOLD}]

(***************************************************************************)
(* shouldCapturePose                                                       *)
(***************************************************************************)
\* mutant: only the absence of a face is turned down
shouldCapturePoseTwoFaces(det, progress, ledger, t) ==
    LET bucket == det.poseBucket IN
    IF det.faceCount < 1 THEN FALSE
    ELSE IF bucket = NoBucket THEN FALSE
    ELSE IF (~det.faceDetected) \/ det.faceConfidence < MIN_FACE_CONFIDENCE THEN FALSE
    ELSE IF ~det.faceInFrame THEN FALSE
    ELSE IF det.quality < MIN_QUALITY_THRESHOLD THEN FALSE
    ELSE IF progress[bucket] THEN FALSE
    ELSE IF t - ledger[bucket] < CAPTURE_COOLDOWN THEN FALSE
    ELSE TRUE

\* mutant: a pose that is captured already is captured again
shouldCapturePoseNoProgress(det, progress, ledger, t) ==
    LET bucket == det.poseBucket IN
    IF det.faceCount # 1 THEN FALSE
    ELSE IF bucket = NoBucket THEN FALSE
    ELSE IF (~det.faceDetected) \/ det.faceConfidence < MIN_FACE_CONFIDENCE THEN FALSE
    ELSE IF ~det.faceInFrame THEN FALSE
    ELSE IF det.quality < MIN_QUALITY_THRESHOLD THEN FALSE
    ELSE IF t - ledger[bucket] < CAPTURE_COOLDOWN THEN FALSE
    ELSE TRUE

\* mutant: the cooldown is not looked at
shouldCapturePoseNoCooldown(det, progress, ledger, t) ==
    LET bucket == det.poseBucket IN
    IF det.faceCount # 1 THEN FALSE
    ELSE IF bucket = NoBucket THEN FALSE
    ELSE IF (~det.faceDetected) \/ det.faceConfidence < MIN_FACE_CONFIDENCE THEN FALSE
    ELSE IF ~det.faceInFrame THEN FALSE
    ELSE IF det.quality < MIN_QUALITY_THRESHOLD THEN FALSE
    ELSE IF progress[bucket] THEN FALSE
    ELSE TRUE

shouldCapturePose(det, progress, ledger, t) ==
    LET bucket == det.poseBucket IN
    IF det.faceCount # 1 THEN FALSE
    ELSE IF bucket = NoBucket THEN FALSE
    ELSE IF (~det.faceDetected) \/ det.faceConfidence < MIN_FACE_CONFIDENCE THEN FALSE
    ELSE IF ~det.faceInFrame THEN FALSE
    ELSE IF det.quality < MIN_QUALITY_THRESHOLD THEN FALSE
    ELSE IF progress[bucket] THEN FALSE
    ELSE IF t - ledger[bucket] < CAPTURE_COOLDOWN THEN FALSE
    ELSE TRUE

(***************************************************************************)
(* Initial state: the page as constructed, the backend without sessions.   *)
(***************************************************************************)
\* FaceDetectionResult as analyzeFrame returns it
createEmptyResult ==
    [faceDetected |-> FALSE, faceCount |-> 0, faceConfidence |-> 0,
     faceInFrame |-> FALSE, poseBucket |-> NoBucket, yaw |-> 0, pitch |-> 0,
     quality |-> 0]

\* no frame
NoScan ==
    [videoWidth |-> 0, videoHeight |-> 0, native |-> FALSE, fails |-> "none",
     faces |-> << >>, small |-> FALSE, inFrame |-> FALSE, yaw |-> 0,
     pitch |-> 0, quality |-> 0]

\* analyzeFrame was not called
NoAnalysis == [ended |-> "none", scanned |-> FALSE, result |-> createEmptyResult]

\* classifyPose is not being evaluated on its own
PoseIdle == pcPose = "off" /\ yaw = 0 /\ pitch = 0 /\ poseBucket = NoBucket

\* analyzeFrame is not being called on its own
DetectIdle ==
    /\ pcDetect = "off"
    /\ detector = "heuristic"
    /\ scan = NoScan
    /\ analysis = NoAnalysis

PageConstructed ==
    /\ viewInitialized = FALSE
    /\ active = FALSE
    /\ sessionId = 0
    /\ poseProgress = NoProgress
    /\ lastCaptureTime = NoLedger
    /\ analysisInterval = 0
    /\ currentDetection = EmptyDetection
    /\ stream = FALSE
    /\ now = StartTime
    /\ timers = {}
    /\ pendingTicks = 0
    /\ starts = [i \in Sessions |-> "none"]
    /\ alertOpen = FALSE
    /\ cancels = EmptyBag
    /\ uploads = EmptyBag
    /\ completePending = 0
    /\ completing = 0
    /\ serverStatus = [s \in Sessions |-> "none"]
    /\ serverPoses = [s \in Sessions |-> {}]
    /\ issueTime = NoLedger
    /\ cancelBegun = {}
    /\ cancelFinished = FALSE
    /\ lastOutcome = NoOutcome
    /\ event = NoEvent

\* shouldCapturePose is not being evaluated on its own
ShouldIdle == pcShould = "off" /\ shouldCapture = FALSE

\* nonMaximumSuppression is not being called on its own
NmsIdle == pcNms = "off" /\ nmsFaces = << >> /\ keep = << >>

\* no candidate
NoCandidate ==
    [score |-> 0, sizeRatio |-> 0, offset |-> 0, sharpness |-> 0,
     lighting |-> 0]

\* nothing computed
NoScored ==
    [sizeScore |-> 0, confidence |-> 0, kept |-> FALSE, valid |-> FALSE,
     faceConfidence |-> 0, quality |-> 0]

\* no candidate is being scored on its own
ScoreIdle == pcScore = "off" /\ candidate = NoCandidate /\ scored = NoScored

\* no face
NoFace == [x |-> 0, y |-> 0, width |-> 0, height |-> 0, frameWidth |-> 0,
           frameHeight |-> 0]

\* estimateHeadPose is not being called on its own
HeadIdle ==
    /\ pcHead = "off"
    /\ face = NoFace
    /\ headPose = [yaw |-> 0, pitch |-> 0, poseBucket |-> NoBucket]

\* the media store as constructed, the media capture page not opened
MediaIdle == recordId = "" /\ capturedMedia = << >>

\* no ApiService call
NoRequest ==
    [method |-> "none", retries |-> 0, state |-> "idle", sent |-> 0,
     error |-> [name |-> "none", status |-> 0], retried |-> 0]

\* ApiService is not called
ApiIdle == isOnline = TRUE /\ request = NoRequest

\* the services that are exercised on their own are not in use
ServicesIdle == NmsIdle /\ ScoreIdle /\ HeadIdle /\ MediaIdle /\ ApiIdle

Constructed ==
    PageConstructed /\ ShouldIdle /\ PoseIdle /\ DetectIdle /\ ServicesIdle

Init == Constructed /\ watched = FALSE

\* the same, with the outcome of the calls being recorded
InitWatched == Constructed /\ watched = TRUE

pageVars == << viewInitialized, active, sessionId, poseProgress, lastCaptureTime,
               analysisInterval, currentDetection, stream >>
loopVars == << timers, pendingTicks >>
callVars == << starts, alertOpen, cancels, uploads, completePending,
               completing >>
serverVars == << serverStatus, serverPoses >>
histVars == << issueTime, cancelBegun, cancelFinished, lastOutcome >>
shouldVars == << pcShould, shouldCapture >>
poseVars == << pcPose, yaw, pitch, poseBucket >>
detectVars == << pcDetect, detector, scan, analysis >>
nmsVars == << pcNms, nmsFaces, keep >>
scoreVars == << pcScore, candidate, scored >>
headVars == << pcHead, face, headPose >>
mediaVars == << recordId, capturedMedia >>
apiVars == << isOnline, request >>
pureVars == << shouldVars, poseVars, detectVars, nmsVars, scoreVars, headVars,
               mediaVars, apiVars >>

(***************************************************************************)
(* Helpers shared by the handlers.                                         *)
(***************************************************************************)
\* stopAnalysisLoop: the timer named by analysisInterval is cleared
stopAnalysisLoop(live, interval) ==
    IF interval # 0 THEN live \ {interval} ELSE live

\* the backend closes session sid (cancel or complete) if it is open
serverClose(status, sid, to) ==
    IF sid \in Sessions /\ status[sid] = "active"
    THEN [status EXCEPT ![sid] = to]
    ELSE status

\* the poses of a closed session are of no use any more
serverForget(poses, status, sid) ==
    IF sid \in Sessions /\ status[sid] = "active"
    THEN [poses EXCEPT ![sid] = {}]
    ELSE poses

\* a startCapture call is under way
starting == \E i \in Sessions : starts[i] \in {"init", "camera"}

AddToBag(bag, e) == bag (+) SetToBag({e})
RemoveFromBag(bag, e) == bag (-) SetToBag({e})

ngAfterViewInit ==
    /\ ~viewInitialized
    /\ viewInitialized' = TRUE
    /\ event' = NoEvent
    /\ UNCHANGED << active, sessionId, poseProgress, lastCaptureTime,
                    analysisInterval, currentDetection, stream, now >>
    /\ UNCHANGED << loopVars, callVars, serverVars, histVars, pureVars, watched >>

(***************************************************************************)
(* startCapture: up to the initializeEnrollment request.                   *)
(***************************************************************************)
startCapture(i) ==
    /\ viewInitialized
    /\ starts[i] = "none"
    /\ \A j \in Sessions : j < i => starts[j] # "none"
    /\ starts' = [starts EXCEPT ![i] = "init"]
    /\ cancelFinished' = FALSE
    /\ event' = NoEvent
    /\ UNCHANGED << pageVars, now, loopVars, alertOpen, cancels, uploads,
                    completePending, completing, serverVars, issueTime,
                    cancelBegun, lastOutcome, pureVars, watched >>

\* mutant: the session id is stored before the response is looked at
startCaptureInitStoresId(i, ok) ==
    /\ starts[i] = "init"
    /\ sessionId' = i
    /\ IF ok
       THEN /\ serverStatus' = [serverStatus EXCEPT ![i] = "active"]
            /\ starts' = [starts EXCEPT ![i] = "camera"]
            /\ event' = NoEvent
       ELSE /\ starts' = [starts EXCEPT ![i] = "done"]
            /\ event' = CallEvent("failure", "initializeEnrollment",
                                  "startCapture", "error.message", "danger")
            /\ UNCHANGED serverStatus
    /\ UNCHANGED << viewInitialized, active, poseProgress, lastCaptureTime,
                    analysisInterval, currentDetection, stream, now, loopVars,
                    alertOpen, cancels, uploads, completePending, completing,
                    serverPoses, histVars, pureVars, watched >>

\* startCapture: the initializeEnrollment response (or its failure: an error,
\* a timeout, success = false); the catch block shows the error
startCaptureInit(i, ok) ==
    /\ starts[i] = "init"
    /\ IF ok
       THEN /\ sessionId' = i
            /\ serverStatus' = [serverStatus EXCEPT ![i] = "active"]
            /\ starts' = [starts EXCEPT ![i] = "camera"]
            /\ event' = NoEvent
       ELSE /\ starts' = [starts EXCEPT ![i] = "done"]
            /\ event' = CallEvent("failure", "initializeEnrollment",
                                  "startCapture", "error.message", "danger")
            /\ UNCHANGED << sessionId, serverStatus >>
    /\ UNCHANGED << viewInitialized, active, poseProgress, lastCaptureTime,
                    analysisInterval, currentDetection, stream, now, loopVars,
                    alertOpen, cancels, uploads, completePending, completing,
                    serverPoses, histVars, pureVars, watched >>

\* startCapture: video element, permission and camera are there (or not)
startCaptureCamera(i, ok) ==
    /\ starts[i] = "camera"
    /\ starts' = [starts EXCEPT ![i] = "done"]
    /\ event' = NoEvent
    /\ IF ok
       THEN /\ active' = TRUE
            /\ stream' = TRUE
            /\ analysisInterval' = i            \* startAnalysisLoop
            /\ timers' = timers \cup {i}
            /\ issueTime' = NoLedger
            /\ lastOutcome' = NoOutcome
       ELSE UNCHANGED << active, stream, analysisInterval, timers, issueTime,
                         lastOutcome >>
    /\ UNCHANGED << viewInitialized, sessionId, poseProgress, lastCaptureTime,
                    currentDetection, now, pendingTicks, alertOpen, cancels,
                    uploads, completePending, completing, serverVars,
                    cancelBegun, cancelFinished, pureVars, watched >>

(***************************************************************************)
(* stopCapture and its alert.                                              *)
(***************************************************************************)
stopCapture ==
    /\ active
    /\ ~alertOpen
    /\ alertOpen' = TRUE
    /\ event' = NoEvent
    /\ UNCHANGED << pageVars, now, loopVars, starts, cancels, uploads,
                    completePending, completing, serverVars, histVars,
                    pureVars, watched >>

\* the "Continue" button
stopCaptureContinue ==
    /\ alertOpen
    /\ alertOpen' = FALSE
    /\ event' = NoEvent
    /\ UNCHANGED << pageVars, now, loopVars, starts, cancels, uploads,
                    completePending, completing, serverVars, histVars,
                    pureVars, watched >>

(***************************************************************************)
(* resetCapture (the "Stop" button), up to the cancelEnrollment request;   *)
(* without a session id it runs to its end.                                *)
(***************************************************************************)
resetCapture(limit) ==
    /\ alertOpen
    /\ alertOpen' = FALSE
    /\ active' = FALSE
    /\ stream' = FALSE
    /\ timers' = stopAnalysisLoop(timers, analysisInterval)
    /\ analysisInterval' = 0
    /\ event' = NoEvent
    /\ cancelBegun' = IF active /\ sessionId # 0
                      THEN cancelBegun \cup {sessionId} ELSE cancelBegun
    /\ IF sessionId # 0
       THEN /\ BagCardinality(cancels) < limit
            /\ cancels' = AddToBag(cancels, [kind |-> "reset", wasActive |-> active,
                                            sid |-> sessionId])
            /\ serverStatus' = serverClose(serverStatus, sessionId, "cancelled")
            /\ serverPoses' = serverForget(serverPoses, serverStatus, sessionId)
            /\ UNCHANGED << poseProgress, lastCaptureTime, sessionId, cancelFinished >>
       ELSE /\ poseProgress' = NoProgress
            /\ lastCaptureTime' = NoLedger
            /\ sessionId' = 0
            /\ cancelFinished' = (cancelFinished \/ (active /\ ~starting))
            /\ UNCHANGED << cancels, serverStatus, serverPoses >>
    /\ UNCHANGED << viewInitialized, currentDetection, now, pendingTicks,
                    starts, uploads, completePending, completing,
                    issueTime, lastOutcome, pureVars, watched >>

\* resetCapture: after cancelEnrollment has resolved (ok) or failed; the catch
\* block only logs, and the same toast follows either way
resetCaptureDone(c, ok) ==
    /\ BagIn(c, cancels)
    /\ c.kind = "reset"
    /\ cancels' = RemoveFromBag(cancels, c)
    /\ poseProgress' = NoProgress
    /\ lastCaptureTime' = NoLedger
    /\ sessionId' = 0
    /\ cancelFinished' = (cancelFinished \/ (c.wasActive /\ ~starting))
    /\ event' = IF ok THEN NoEvent
                ELSE CallEvent("failure", "cancelEnrollment", "resetCapture",
                               "Enrollment cancelled", "warning")
    /\ UNCHANGED << viewInitialized, active, analysisInterval, currentDetection,
                    stream, now, loopVars, starts, alertOpen, uploads,
                    completePending, completing, serverVars, issueTime,
                    cancelBegun, lastOutcome, pureVars, watched >>

(***************************************************************************)
(* cleanupCapture (ngOnDestroy, ionViewWillLeave), up to the               *)
(* cancelEnrollment request; without a session id it runs to its end.      *)
(***************************************************************************)
cleanupCapture(limit) ==
    /\ timers' = IF active THEN stopAnalysisLoop(timers, analysisInterval) ELSE timers
    /\ analysisInterval' = IF active THEN 0 ELSE analysisInterval
    /\ stream' = IF active THEN FALSE ELSE stream
    /\ active' = FALSE
    /\ event' = NoEvent
    /\ cancelBegun' = IF active /\ sessionId # 0
                      THEN cancelBegun \cup {sessionId} ELSE cancelBegun
    /\ IF sessionId # 0
       THEN /\ BagCardinality(cancels) < limit
            /\ cancels' = AddToBag(cancels, [kind |-> "cleanup", wasActive |-> active,
                                            sid |-> sessionId])
            /\ serverStatus' = serverClose(serverStatus, sessionId, "cancelled")
            /\ serverPoses' = serverForget(serverPoses, serverStatus, sessionId)
            /\ UNCHANGED << poseProgress, lastCaptureTime, sessionId, cancelFinished >>
       ELSE /\ poseProgress' = NoProgress
            /\ lastCaptureTime' = NoLedger
            /\ sessionId' = 0
            /\ cancelFinished' = (cancelFinished \/ (active /\ ~starting))
            /\ UNCHANGED << cancels, serverStatus, serverPoses >>
    /\ UNCHANGED << viewInitialized, currentDetection, now, pendingTicks,
                    starts, alertOpen, uploads, completePending, completing,
                    issueTime, lastOutcome, pureVars, watched >>

\* mutant: the state is reset only when the cancellation went through
cleanupCaptureDoneOnSuccess(c, ok) ==
    /\ BagIn(c, cancels)
    /\ c.kind = "cleanup"
    /\ cancels' = RemoveFromBag(cancels, c)
    /\ IF ok
       THEN /\ sessionId' = 0
            /\ poseProgress' = NoProgress
            /\ lastCaptureTime' = NoLedger
            /\ event' = NoEvent
       ELSE /\ event' = CallEvent("failure", "cancelEnrollment",
                                  "cleanupCapture", "none", "none")
            /\ UNCHANGED << sessionId, poseProgress, lastCaptureTime >>
    /\ cancelFinished' = (cancelFinished \/ (c.wasActive /\ ~starting))
    /\ UNCHANGED << viewInitialized, active, analysisInterval, currentDetection,
                    stream, now, loopVars, starts, alertOpen, uploads,
                    completePending, completing, serverVars, issueTime,
                    cancelBegun, lastOutcome, pureVars, watched >>

\* cleanupCapture: after cancelEnrollment has resolved (ok) or failed; the
\* catch block only logs, no toast is shown
cleanupCaptureDone(c, ok) ==
    /\ BagIn(c, cancels)
    /\ c.kind = "cleanup"
    /\ cancels' = RemoveFromBag(cancels, c)
    /\ sessionId' = 0
    /\ poseProgress' = NoProgress
    /\ lastCaptureTime' = NoLedger
    /\ cancelFinished' = (cancelFinished \/ (c.wasActive /\ ~starting))
    /\ event' = IF ok THEN NoEvent
                ELSE CallEvent("failure", "cancelEnrollment", "cleanupCapture",
                               "none", "none")
    /\ UNCHANGED << viewInitialized, active, analysisInterval, currentDetection,
                    stream, now, loopVars, starts, alertOpen, uploads,
                    completePending, completing, serverVars, issueTime,
                    cancelBegun, lastOutcome, pureVars, watched >>


(***************************************************************************)
(* The analysis loop.                                                      *)
(***************************************************************************)
\* the setInterval callback of startAnalysisLoop, up to `await analyzeFrame`
analysisTick(t) ==
    /\ t \in timers
    /\ active
    /\ pendingTicks < MaxTicks
    /\ pendingTicks' = pendingTicks + 1
    /\ event' = NoEvent
    /\ UNCHANGED << pageVars, now, timers, callVars, serverVars, histVars,
                    pureVars, watched >>

\* mutant: the request goes out without the ledger entry being written
capturePoseFrameNoLedger(bucket) ==
    /\ BagCardinality(uploads) < MaxInFlight
    /\ lastCaptureTime' = lastCaptureTime
    /\ uploads' = AddToBag(uploads, [bucket |-> bucket, sid |-> sessionId,
                                    res |-> "pending"])
    /\ issueTime' = [issueTime EXCEPT ![bucket] = now]
    /\ lastOutcome' = [lastOutcome EXCEPT ![bucket] = "none"]

\* capturePoseFrame, up to the uploadFrame request
capturePoseFrame(bucket) ==
    /\ BagCardinality(uploads) < MaxInFlight
    /\ lastCaptureTime' = [lastCaptureTime EXCEPT ![bucket] = now]
    /\ uploads' = AddToBag(uploads, [bucket |-> bucket, sid |-> sessionId,
                                    res |-> "pending"])
    /\ issueTime' = [issueTime EXCEPT ![bucket] = now]
    /\ lastOutcome' = [lastOutcome EXCEPT ![bucket] = "none"]

\* the setTimeout(0) callback of the tick, given the detection of analyzeFrame
analysisDeferred(det) ==
    /\ pendingTicks > 0
    /\ pendingTicks' = pendingTicks - 1
    /\ IF ~active
       THEN /\ event' = NoEvent
            /\ UNCHANGED << currentDetection, lastCaptureTime, uploads,
                            issueTime, lastOutcome >>
       ELSE /\ currentDetection' = det
            /\ event' = NoEvent
            /\ IF shouldCapturePose(det, poseProgress, lastCaptureTime, now)
               THEN capturePoseFrame(det.poseBucket)
               ELSE UNCHANGED << lastCaptureTime, uploads, issueTime,
                                 lastOutcome >>
    /\ UNCHANGED << viewInitialized, active, sessionId, poseProgress,
                    analysisInterval, stream, now, timers, starts, alertOpen,
                    cancels, completePending, completing, serverVars,
                    cancelBegun, cancelFinished, pureVars, watched >>

(***************************************************************************)
(* The backend accepts the frame of an uploadFrame request.  It accepts a  *)
(* pose only for a session that is open and does not hold the pose yet,    *)
(* and reports completed exactly with the fifth pose.  The response is     *)
(* then on its way to the page.                                            *)
(***************************************************************************)
uploadFrame(u) ==
    /\ BagIn(u, uploads)
    /\ u.res = "pending"
    /\ u.sid \in Sessions
    /\ serverStatus[u.sid] = "active"
    /\ u.bucket \notin serverPoses[u.sid]
    /\ serverPoses' = [serverPoses EXCEPT ![u.sid] = @ \cup {u.bucket}]
    /\ uploads' = AddToBag(RemoveFromBag(uploads, u),
           [u EXCEPT !.res = IF serverPoses'[u.sid] = Buckets
                             THEN "completed" ELSE "accepted"])
    /\ event' = NoEvent
    /\ UNCHANGED << pageVars, now, loopVars, starts, alertOpen, cancels,
                    completePending, completing, serverStatus, histVars,
                    pureVars, watched >>

\* how the attempts for the bucket of u have ended, once u has ended as `how`
\* and no other request for the bucket is outstanding
Ended(u, how) ==
    IF watched /\ \A v \in BagToSet(RemoveFromBag(uploads, u)) : v.bucket # u.bucket
    THEN [lastOutcome EXCEPT ![u.bucket] = how]
    ELSE lastOutcome

\* capturePoseFrame: uploadFrame has failed (timeout, transport error, non-2xx
\* status) or has answered success = false; the catch block runs
capturePoseFrameFailed(u) ==
    /\ BagIn(u, uploads)
    /\ u.res = "pending"
    /\ uploads' = RemoveFromBag(uploads, u)
    /\ lastOutcome' = Ended(u, "failed")
    /\ event' = CallEvent("failure", "uploadFrame", "capturePoseFrame",
                          "error.message", "danger")
    /\ UNCHANGED << pageVars, now, loopVars, starts, alertOpen, cancels,
                    completePending, completing, serverVars, issueTime,
                    cancelBegun, cancelFinished, pureVars, watched >>

\* capturePoseFrame: uploadFrame has answered accepted = false
capturePoseFrameRejected(u) ==
    /\ BagIn(u, uploads)
    /\ u.res = "pending"
    /\ uploads' = RemoveFromBag(uploads, u)
    /\ lastOutcome' = Ended(u, "rejected")
    /\ event' = NoEvent
    /\ UNCHANGED << pageVars, now, loopVars, starts, alertOpen, cancels,
                    completePending, completing, serverVars, issueTime,
                    cancelBegun, cancelFinished, pureVars, watched >>

\* capturePoseFrame: uploadFrame has answered accepted = true; up to the toast
capturePoseFrameAccepted(u) ==
    /\ BagIn(u, uploads)
    /\ u.res \in {"accepted", "completed"}
    /\ uploads' = RemoveFromBag(uploads, u)
    /\ poseProgress' = [poseProgress EXCEPT ![u.bucket] = TRUE]
    /\ completePending' = IF u.res = "completed"
                          THEN completePending + 1 ELSE completePending
    /\ lastOutcome' = Ended(u, "none")
    /\ event' = NoEvent
    /\ UNCHANGED << viewInitialized, active, sessionId, lastCaptureTime,
                    analysisInterval, currentDetection, stream, now, loopVars,
                    starts, alertOpen, cancels, completing, serverVars,
                    issueTime, cancelBegun, cancelFinished, pureVars, watched >>

\* onEnrollmentComplete, up to the completeEnrollment request
onEnrollmentComplete ==
    /\ completePending > 0
    /\ completePending' = completePending - 1
    /\ active' = FALSE
    /\ stream' = FALSE
    /\ timers' = stopAnalysisLoop(timers, analysisInterval)
    /\ analysisInterval' = 0
    /\ event' = NoEvent
    /\ IF sessionId # 0
       THEN /\ completing' = completing + 1
            /\ serverStatus' = serverClose(serverStatus, sessionId, "completed")
            /\ serverPoses' = serverForget(serverPoses, serverStatus, sessionId)
       ELSE UNCHANGED << completing, serverStatus, serverPoses >>
    /\ UNCHANGED << viewInitialized, sessionId, poseProgress, lastCaptureTime,
                    currentDetection, now, pendingTicks, starts, alertOpen,
                    cancels, uploads, histVars, pureVars, watched >>

\* onEnrollmentComplete: after completeEnrollment has resolved (ok) or failed;
\* the catch block only logs, and the success toast follows either way
onEnrollmentCompleteDone(ok) ==
    /\ completing > 0
    /\ completing' = completing - 1
    /\ event' = IF ok THEN NoEvent
                ELSE CallEvent("failure", "completeEnrollment",
                               "onEnrollmentComplete",
                               "Enrollment complete", "success")
    /\ UNCHANGED << pageVars, now, loopVars, starts, alertOpen, cancels,
                    uploads, completePending, serverVars, histVars, pureVars, watched >>

\* time passes
clockAdvance ==
    /\ now + ClockStep <= StartTime + MaxAdvances * ClockStep
    /\ now' = now + ClockStep
    /\ event' = NoEvent
    /\ UNCHANGED << pageVars, loopVars, callVars, serverVars, histVars,
                    pureVars, watched >>


(***************************************************************************)
(* One step of the page, its timers, its pending calls, the backend or the *)
(* clock, when startCapture is called for the calls in `calls` and the     *)
(* subject shows the poses in `shown` and at most `limit` cancelEnrollment *)
(* requests are outstanding at once.                                       *)
(***************************************************************************)
Step(calls, shown, limit) ==
    \/ ngAfterViewInit
    \/ \E i \in calls : startCapture(i)
    \/ \E i \in calls, ok \in BOOLEAN : startCaptureInit(i, ok)
    \/ \E i \in calls, ok \in BOOLEAN : startCaptureCamera(i, ok)
    \/ stopCapture
    \/ stopCaptureContinue
    \/ resetCapture(limit)
    \/ \E c \in BagToSet(cancels), ok \in BOOLEAN : resetCaptureDone(c, ok)
    \/ cleanupCapture(limit)
    \/ \E c \in BagToSet(cancels), ok \in BOOLEAN : cleanupCaptureDone(c, ok)
    \/ \E t \in timers : analysisTick(t)
    \/ \E det \in TickDetections(poseProgress, shown) : analysisDeferred(det)
    \/ \E u \in BagToSet(uploads) : uploadFrame(u)
    \/ \E u \in BagToSet(uploads) : capturePoseFrameFailed(u)
    \/ \E u \in BagToSet(uploads) : capturePoseFrameRejected(u)
    \/ \E u \in BagToSet(uploads) : capturePoseFrameAccepted(u)
    \/ clockAdvance

\* one call of startCapture, all five poses
Next ==
    \/ Step({1}, Buckets, MaxCancels)
    \/ onEnrollmentComplete
    \/ \E ok \in BOOLEAN : onEnrollmentCompleteDone(ok)

Spec == Init /\ [][Next]_vars

\* startCapture is called up to MaxStarts times, also while an earlier call,
\* a reset or a cleanup is under way; the subject looks straight ahead, so
\* the backend never reports completed
NextRestart == Step(Sessions, {"FRONT"}, MaxCancels)

SpecRestart == Init /\ [][NextRestart]_vars

\* one call of startCapture, the first PoseWindow poses, and the outcome of
\* every call recorded
NextWatched == Step({1}, {"FRONT", "LEFT"}, MaxCancels)

SpecWatched == InitWatched /\ [][NextWatched]_vars

\* one call of startCapture, the subject looks straight ahead, and the page
\* is left and destroyed or stopped while a cancelEnrollment request of an
\* earlier cleanupCapture or resetCapture is still outstanding
NextLeave == Step({1}, {"FRONT"}, MaxLeaves)

SpecLeave == Init /\ [][NextLeave]_vars

(***************************************************************************)
(* shouldCapturePose on its own: every detection, with progress and ledger *)
(* that leave the detection's bucket free, marked, or just attempted.      *)
(***************************************************************************)
ShouldProgress ==
    {NoProgress} \cup {[NoProgress EXCEPT ![b] = TRUE] : b \in Buckets}

ShouldLedgers ==
    {NoLedger} \cup
    {[NoLedger EXCEPT ![b] = t] :
        b \in Buckets,
        t \in {StartTime - CAPTURE_COOLDOWN, StartTime - CAPTURE_COOLDOWN + 1}}

InitShould ==
    /\ viewInitialized = TRUE
    /\ active = TRUE
    /\ sessionId = 1
    /\ poseProgress \in ShouldProgress
    /\ lastCaptureTime \in ShouldLedgers
    /\ analysisInterval = 1
    /\ currentDetection \in AllDetections
    /\ stream = TRUE
    /\ now = StartTime
    /\ timers = {1}
    /\ pendingTicks = 0
    /\ starts = [i \in Sessions |-> IF i = 1 THEN "done" ELSE "none"]
    /\ alertOpen = FALSE
    /\ cancels = EmptyBag
    /\ uploads = EmptyBag
    /\ completePending = 0
    /\ completing = 0
    /\ serverStatus = [s \in Sessions |-> IF s = 1 THEN "active" ELSE "none"]
    /\ serverPoses = [s \in Sessions |-> {}]
    /\ issueTime = NoLedger
    /\ cancelBegun = {}
    /\ cancelFinished = FALSE
    /\ lastOutcome = NoOutcome
    /\ event = NoEvent
    /\ watched = FALSE
    /\ pcShould = "call"
    /\ shouldCapture = FALSE
    /\ PoseIdle
    /\ DetectIdle
    /\ ServicesIdle

evalShouldCapturePose ==
    /\ pcShould = "call"
    /\ pcShould' = "done"
    /\ shouldCapture' = shouldCapturePose(currentDetection, poseProgress,
                                          lastCaptureTime, now)
    /\ UNCHANGED << pageVars, now, loopVars, callVars, serverVars, histVars,
                    event, watched, poseVars, detectVars, nmsVars, scoreVars,
                    headVars, mediaVars, apiVars >>

NextShould == evalShouldCapturePose

SpecShould == InitShould /\ [][NextShould]_vars

(***************************************************************************)
(* FaceDetectionService.  Angles are counted in steps of 1/PoseScale       *)
(* degree, so that the gaps between the thresholds of classifyPose hold    *)
(* angles that are not whole degrees; confidence and quality are counted   *)
(* in percent.                                                             *)
(***************************************************************************)
Degrees(d) == d * PoseScale

\* the range condition of bucket b, widened for FRONT to that of the ML Kit
\* service
InRangeWideFront(b, y, p) ==
    CASE b = "FRONT" -> /\ y >= Degrees(-10) /\ y <= Degrees(10)
                        /\ p >= Degrees(-8) /\ p <= Degrees(8)
      [] b = "LEFT"  -> /\ y >= Degrees(-35) /\ y <= Degrees(-12)
                        /\ p >= Degrees(-15) /\ p <= Degrees(15)
      [] b = "RIGHT" -> /\ y >= Degrees(12) /\ y <= Degrees(35)
                        /\ p >= Degrees(-15) /\ p <= Degrees(15)
      [] b = "UP"    -> /\ p >= Degrees(-30) /\ p <= Degrees(-8)
                        /\ y >= Degrees(-20) /\ y <= Degrees(20)
      [] b = "DOWN"  -> /\ p >= Degrees(8) /\ p <= Degrees(25)
                        /\ y >= Degrees(-20) /\ y <= Degrees(20)

\* the range condition of bucket b in classifyPose
InRange(b, y, p) ==
    CASE b = "FRONT" -> /\ y >= Degrees(-8) /\ y <= Degrees(8)
                        /\ p >= Degrees(-6) /\ p <= Degrees(6)
      [] b = "LEFT"  -> /\ y >= Degrees(-35) /\ y <= Degrees(-12)
                        /\ p >= Degrees(-15) /\ p <= Degrees(15)
      [] b = "RIGHT" -> /\ y >= Degrees(12) /\ y <= Degrees(35)
                        /\ p >= Degrees(-15) /\ p <= Degrees(15)
      [] b = "UP"    -> /\ p >= Degrees(-30) /\ p <= Degrees(-8)
                        /\ y >= Degrees(-20) /\ y <= Degrees(20)
      [] b = "DOWN"  -> /\ p >= Degrees(8) /\ p <= Degrees(25)
                        /\ y >= Degrees(-20) /\ y <= Degrees(20)

\* classifyPose with LEFT and RIGHT exchanged
classifyPoseMirrored(y, p) ==
    IF InRange("FRONT", y, p) THEN "FRONT"
    ELSE IF InRange("LEFT", y, p) THEN "RIGHT"
    ELSE IF InRange("RIGHT", y, p) THEN "LEFT"
    ELSE IF InRange("UP", y, p) THEN "UP"
    ELSE IF InRange("DOWN", y, p) THEN "DOWN"
    ELSE NoBucket

classifyPose(y, p) ==
    IF InRange("FRONT", y, p) THEN "FRONT"
    ELSE IF InRange("LEFT", y, p) THEN "LEFT"
    ELSE IF InRange("RIGHT", y, p) THEN "RIGHT"
    ELSE IF InRange("UP", y, p) THEN "UP"
    ELSE IF InRange("DOWN", y, p) THEN "DOWN"
    ELSE NoBucket

\* the range condition of bucket b in classifyPose of the ML Kit service
InRangeMLKit(b, y, p) ==
    CASE b = "FRONT" -> /\ y >= Degrees(-10) /\ y <= Degrees(10)
                        /\ p >= Degrees(-8) /\ p <= Degrees(8)
      [] b = "LEFT"  -> /\ y >= Degrees(-35) /\ y <= Degrees(-12)
                        /\ p >= Degrees(-15) /\ p <= Degrees(15)
      [] b = "RIGHT" -> /\ y >= Degrees(12) /\ y <= Degrees(35)
                        /\ p >= Degrees(-15) /\ p <= Degrees(15)
      [] b = "UP"    -> /\ p <= Degrees(-10) /\ p >= Degrees(-30)
                        /\ y >= Degrees(-20) /\ y <= Degrees(20)
      [] b = "DOWN"  -> /\ p >= Degrees(10) /\ p <= Degrees(30)
                        /\ y >= Degrees(-20) /\ y <= Degrees(20)

classifyPoseMLKit(y, p) ==
    IF InRangeMLKit("FRONT", y, p) THEN "FRONT"
    ELSE IF InRangeMLKit("LEFT", y, p) THEN "LEFT"
    ELSE IF InRangeMLKit("RIGHT", y, p) THEN "RIGHT"
    ELSE IF InRangeMLKit("UP", y, p) THEN "UP"
    ELSE IF InRangeMLKit("DOWN", y, p) THEN "DOWN"
    ELSE NoBucket

(***************************************************************************)
(* classifyPose of either service on its own: every pair the estimator can *)
(* return, estimateHeadPose clamping yaw to [-YawLimit, YawLimit] and      *)
(* pitch to [-PitchLimit, PitchLimit].                                     *)
(***************************************************************************)
InitPose ==
    /\ PageConstructed
    /\ watched = FALSE
    /\ ShouldIdle
    /\ ServicesIdle
    /\ pcDetect = "off"
    /\ detector \in {"heuristic", "mlkit"}
    /\ scan = NoScan
    /\ analysis = NoAnalysis
    /\ pcPose = "call"
    /\ yaw \in Degrees(-YawLimit)..Degrees(YawLimit)
    /\ pitch \in Degrees(-PitchLimit)..Degrees(PitchLimit)
    /\ poseBucket = NoBucket

evalClassifyPose ==
    /\ pcPose = "call"
    /\ detector = "heuristic"
    /\ pcPose' = "done"
    /\ poseBucket' = classifyPose(yaw, pitch)
    /\ UNCHANGED << pageVars, now, loopVars, callVars, serverVars, histVars,
                    event, watched, shouldVars, yaw, pitch, detectVars, nmsVars,
                    scoreVars, headVars, mediaVars, apiVars >>

evalClassifyPoseMLKit ==
    /\ pcPose = "call"
    /\ detector = "mlkit"
    /\ pcPose' = "done"
    /\ poseBucket' = classifyPoseMLKit(yaw, pitch)
    /\ UNCHANGED << pageVars, now, loopVars, callVars, serverVars, histVars,
                    event, watched, shouldVars, yaw, pitch, detectVars, nmsVars,
                    scoreVars, headVars, mediaVars, apiVars >>

NextPose == evalClassifyPose \/ evalClassifyPoseMLKit

SpecPose == InitPose /\ [][NextPose]_vars

(***************************************************************************)
(* analyzeFrame.  A scan is the frame and what the detector finds in it:   *)
(* `faces` are the confidences of the candidates detectFaces returns (they *)
(* passed the filter confidence > 0.6, best first), yaw, pitch, quality    *)
(* and inFrame are what estimateHeadPose, calculateQuality and             *)
(* isFaceInFrame compute for the first of them, `fails` is the stage at    *)
(* which the frame makes the detector throw.                               *)
(***************************************************************************)
Returned(scanned, result) ==
    [ended |-> "returned", scanned |-> scanned, result |-> result]

Thrown(scanned) ==
    [ended |-> "thrown", scanned |-> scanned, result |-> createEmptyResult]

maxConfidence(faces) == IF Len(faces) > 0 THEN faces[1] ELSE 0

\* isValidDetection without the confidence requirement
isValidDetectionAnyConfidence(faces) ==
    IF Len(faces) # 1 THEN FALSE ELSE TRUE

isValidDetection(faces) ==
    IF Len(faces) # 1 THEN FALSE
    ELSE IF maxConfidence(faces) < FaceDetection_MIN_FACE_CONFIDENCE THEN FALSE
    ELSE TRUE

\* the try block of analyzeFrame
tryAnalyzeFrame(s) ==
    IF s.fails = "draw" THEN Thrown(FALSE)
    ELSE IF s.fails = "detect" THEN Thrown(TRUE)
    ELSE IF ~isValidDetection(s.faces)
    THEN Returned(TRUE,
            [faceDetected |-> FALSE, faceCount |-> Len(s.faces),
             faceConfidence |-> maxConfidence(s.faces),
             faceInFrame |-> Len(s.faces) > 0, poseBucket |-> NoBucket,
             yaw |-> 0, pitch |-> 0, quality |-> 0])
    ELSE IF s.fails = "pose" THEN Thrown(TRUE)
    ELSE Returned(TRUE,
            [faceDetected |-> TRUE, faceCount |-> 1,
             faceConfidence |-> s.faces[1], faceInFrame |-> s.inFrame,
             poseBucket |-> classifyPose(s.yaw, s.pitch), yaw |-> s.yaw,
             pitch |-> s.pitch, quality |-> s.quality])

\* analyzeFrame without its catch clause
analyzeFrameNoCatch(s) ==
    IF s.videoWidth = 0 \/ s.videoHeight = 0
    THEN Returned(FALSE, createEmptyResult)
    ELSE tryAnalyzeFrame(s)

analyzeFrame(s) ==
    IF s.videoWidth = 0 \/ s.videoHeight = 0
    THEN Returned(FALSE, createEmptyResult)
    ELSE LET r == tryAnalyzeFrame(s)
         IN  IF r.ended = "thrown"
             THEN Returned(r.scanned, createEmptyResult)
             ELSE r

\* the try block of analyzeFrame of the ML Kit service; `faces` are what
\* calculateConfidence gives for the faces of processImage
tryAnalyzeFrameMLKit(s) ==
    IF s.fails = "draw" THEN Thrown(FALSE)
    ELSE IF s.fails = "detect" THEN Thrown(TRUE)
    ELSE IF Len(s.faces) = 0
    THEN Returned(TRUE,
            [faceDetected |-> FALSE, faceCount |-> 0, faceConfidence |-> 0,
             faceInFrame |-> FALSE, poseBucket |-> NoBucket, yaw |-> 0,
             pitch |-> 0, quality |-> 0])
    ELSE IF Len(s.faces) > 1
    THEN Returned(TRUE,
            [faceDetected |-> TRUE, faceCount |-> Len(s.faces),
             faceConfidence |-> s.faces[1], faceInFrame |-> TRUE,
             poseBucket |-> NoBucket, yaw |-> 0, pitch |-> 0, quality |-> 0])
    ELSE IF s.fails = "pose" THEN Thrown(TRUE)
    ELSE IF s.small
    THEN Returned(TRUE,
            [faceDetected |-> TRUE, faceCount |-> 1,
             faceConfidence |-> s.faces[1], faceInFrame |-> FALSE,
             poseBucket |-> NoBucket, yaw |-> 0, pitch |-> 0,
             quality |-> (s.faces[1] * 5) \div 10])
    ELSE Returned(TRUE,
            [faceDetected |-> TRUE, faceCount |-> 1,
             faceConfidence |-> s.faces[1], faceInFrame |-> s.inFrame,
             poseBucket |-> classifyPoseMLKit(s.yaw, s.pitch), yaw |-> s.yaw,
             pitch |-> s.pitch, quality |-> s.quality])

analyzeFrameMLKit(s) ==
    IF ~s.native THEN Returned(FALSE, createEmptyResult)
    ELSE IF s.videoWidth = 0 \/ s.videoHeight = 0
    THEN Returned(FALSE, createEmptyResult)
    ELSE LET r == tryAnalyzeFrameMLKit(s)
         IN  IF r.ended = "thrown"
             THEN Returned(r.scanned, createEmptyResult)
             ELSE r

\* confidences of the scanned candidates, all above the filter of detectFaces
ScanConfidences ==
    {62, FaceDetection_MIN_FACE_CONFIDENCE - 2, FaceDetection_MIN_FACE_CONFIDENCE,
     100}

\* candidate lists, best first, as detectFaces sorts them
ScanFaces ==
    {f \in UNION {[1..n -> ScanConfidences] : n \in 0..MaxFaceCount} :
        \A i, j \in DOMAIN f : i < j => f[i] >= f[j]}

\* poses of the first candidate, in degrees: one in every bucket, one in the
\* dead zone, one in the ranges of both LEFT and UP
ScanPoses ==
    { << 0, 0 >>, << -20, 0 >>, << 20, 0 >>, << 0, -15 >>, << 0, 15 >>,
      << 10, 10 >>, << -15, -10 >> }

ScanFrames ==
    {[videoWidth |-> w, videoHeight |-> h, native |-> n, fails |-> e,
      faces |-> f, small |-> m, inFrame |-> r, yaw |-> Degrees(q[1]),
      pitch |-> Degrees(q[2]), quality |-> c] :
        w \in {0, VideoWidth}, h \in {0, VideoHeight}, n \in BOOLEAN,
        e \in {"none", "draw", "detect", "pose"}, f \in ScanFaces,
        m \in BOOLEAN, r \in BOOLEAN, q \in ScanPoses,
        c \in {MIN_QUALITY_THRESHOLD - 1, MIN_QUALITY_THRESHOLD}}

InitDetect ==
    /\ PageConstructed
    /\ watched = FALSE
    /\ ShouldIdle
    /\ PoseIdle
    /\ ServicesIdle
    /\ pcDetect = "call"
    /\ detector \in {"heuristic", "mlkit"}
    /\ scan \in ScanFrames
    /\ analysis = NoAnalysis

callAnalyzeFrame ==
    /\ pcDetect = "call"
    /\ detector = "heuristic"
    /\ pcDetect' = "done"
    /\ analysis' = analyzeFrame(scan)
    /\ UNCHANGED << pageVars, now, loopVars, callVars, serverVars, histVars,
                    event, watched, shouldVars, poseVars, detector, scan, nmsVars,
                    scoreVars, headVars, mediaVars, apiVars >>

callAnalyzeFrameMLKit ==
    /\ pcDetect = "call"
    /\ detector = "mlkit"
    /\ pcDetect' = "done"
    /\ analysis' = analyzeFrameMLKit(scan)
    /\ UNCHANGED << pageVars, now, loopVars, callVars, serverVars, histVars,
                    event, watched, shouldVars, poseVars, detector, scan, nmsVars,
                    scoreVars, headVars, mediaVars, apiVars >>

NextDetect == callAnalyzeFrame \/ callAnalyzeFrameMLKit

SpecDetect == InitDetect /\ [][NextDetect]_vars

(***************************************************************************)
(* nonMaximumSuppression.  A candidate is a box with a score in percent;   *)
(* an overlap is kept as the pair << intersection, union >>, so that the   *)
(* comparison with overlapThreshold = 0.3 is exact.                        *)
(***************************************************************************)
Max(a, b) == IF a >= b THEN a ELSE b
Min(a, b) == IF a <= b THEN a ELSE b

calculateOverlap(rect1, rect2) ==
    LET x1 == Max(rect1.x, rect2.x)
        y1 == Max(rect1.y, rect2.y)
        x2 == Min(rect1.x + rect1.width, rect2.x + rect2.width)
        y2 == Min(rect1.y + rect1.height, rect2.y + rect2.height)
        intersection == (x2 - x1) * (y2 - y1)
        area1 == rect1.width * rect1.height
        area2 == rect2.width * rect2.height
    IN  IF x2 <= x1 \/ y2 <= y1 THEN << 0, 1 >>
        ELSE << intersection, area1 + area2 - intersection >>

\* overlap > overlapThreshold, the threshold being 0.3
OverThreshold(overlap) == 10 * overlap[1] > 3 * overlap[2]

\* f put behind the candidates of `sorted` that score at least as much
InsertByScore(sorted, f) ==
    LET n == Cardinality({k \in 1..Len(sorted) : sorted[k].score >= f.score})
    IN  SubSeq(sorted, 1, n) \o << f >> \o SubSeq(sorted, n + 1, Len(sorted))

\* the candidates left in the order given
sortByScoreNot(fs) == fs

\* faces.sort((a, b) => b.score - a.score): descending, equal scores in the
\* order given
RECURSIVE sortByScore(_)
sortByScore(fs) ==
    IF fs = << >> THEN << >>
    ELSE InsertByScore(sortByScore(SubSeq(fs, 1, Len(fs) - 1)), fs[Len(fs)])

\* the loop of nonMaximumSuppression from index i on, `kept` being kept so far
RECURSIVE suppress(_, _, _)
suppress(sorted, i, kept) ==
    IF i > Len(sorted) THEN kept
    ELSE LET shouldKeep ==
                 \A k \in 1..Len(kept) :
                     ~OverThreshold(calculateOverlap(sorted[i], kept[k]))
         IN  suppress(sorted, i + 1,
                      IF shouldKeep THEN Append(kept, sorted[i]) ELSE kept)

nonMaximumSuppression(fs) ==
    IF Len(fs) = 0 THEN << >> ELSE suppress(sortByScore(fs), 1, << >>)

\* candidates as detectFacesAtScale pushes them: squares of one size, some
\* apart by a step that gives an overlap of exactly 0.3
NmsBoxes ==
    [x : {0, NmsSize - 7, NmsSize - 6}, y : {0, NmsSize - 6},
     width : {NmsSize}, height : {NmsSize}, score : {70, 80, 90}]

InitNms ==
    /\ PageConstructed
    /\ watched = FALSE
    /\ ShouldIdle /\ PoseIdle /\ DetectIdle
    /\ ScoreIdle /\ HeadIdle /\ MediaIdle /\ ApiIdle
    /\ pcNms = "call"
    /\ nmsFaces \in UNION {[1..n -> NmsBoxes] : n \in 0..MaxCandidates}
    /\ keep = << >>

callNonMaximumSuppression ==
    /\ pcNms = "call"
    /\ pcNms' = "done"
    /\ keep' = nonMaximumSuppression(nmsFaces)
    /\ UNCHANGED << pageVars, now, loopVars, callVars, serverVars, histVars,
                    event, watched, shouldVars, poseVars, detectVars, nmsFaces,
                    scoreVars, headVars, mediaVars, apiVars >>

NextNms == callNonMaximumSuppression

SpecNms == InitNms /\ [][NextNms]_vars

(***************************************************************************)
(* calculateFaceConfidence and calculateQuality.  A candidate is given by  *)
(* what the two functions read of it: the score of evaluateFaceRegion, the *)
(* sharpness and the lighting quality in percent, the ratio of its area to *)
(* the frame's in thousandths, and offsetX + offsetY in percent.  A size   *)
(* score counts in units of 1/OptimalRatio, a confidence in units of       *)
(* 1/ConfidenceUnit, a quality in units of 1/QualityUnit, all exact.       *)
(***************************************************************************)
Abs(a) == IF a >= 0 THEN a ELSE -a

\* sizeScore of calculateFaceConfidence, sizeQuality of calculateQuality
sizeScore(sizeRatio) ==
    IF sizeRatio >= MIN_FACE_SIZE_RATIO /\ sizeRatio <= MAX_FACE_SIZE_RATIO
    THEN OptimalRatio - Abs(sizeRatio - OptimalRatio)
    ELSE 0

\* 1 - Math.min(1, (offsetX + offsetY) / 2), in percent
positionScore(offset) == 100 - Min(100, offset \div 2)

\* score * 0.4 + sizeScore * 0.3 + positionScore * 0.3
calculateFaceConfidence(c) ==
    12 * c.score + 6 * sizeScore(c.sizeRatio) + 9 * positionScore(c.offset)

\* the four qualities added with no weights
calculateQualityUnweighted(c) ==
    40 * sizeScore(c.sizeRatio) + 60 * positionScore(c.offset)
        + 60 * c.sharpness + 60 * c.lighting

\* sizeQuality * 0.3 + positionQuality * 0.25 + sharpnessQuality * 0.25
\* + lightingQuality * 0.2
calculateQuality(c) ==
    12 * sizeScore(c.sizeRatio) + 15 * positionScore(c.offset)
        + 15 * c.sharpness + 12 * c.lighting

\* detectFaces and analyzeFrame for a frame with the one candidate c: the
\* confidence of the candidate, whether the filter of detectFaces keeps it,
\* whether isValidDetection accepts it, and the two numbers of the result
scoreFace(c) ==
    LET confidence == calculateFaceConfidence(c)
        kept == 10 * confidence > 6 * ConfidenceUnit
        valid == kept /\ ~(100 * confidence
                              < FaceDetection_MIN_FACE_CONFIDENCE * ConfidenceUnit)
    IN  [sizeScore |-> sizeScore(c.sizeRatio), confidence |-> confidence,
         kept |-> kept, valid |-> valid,
         faceConfidence |-> IF kept THEN confidence ELSE 0,
         quality |-> IF valid THEN calculateQuality(c) ELSE 0]

\* ratios at and beside the limits, the optimum and the zero of the formula
SizeRatios ==
    {0, MIN_FACE_SIZE_RATIO - 1, MIN_FACE_SIZE_RATIO, 100, OptimalRatio, 200,
     2 * OptimalRatio, 2 * OptimalRatio + 1, MAX_FACE_SIZE_RATIO,
     MAX_FACE_SIZE_RATIO + 1, 1000}

\* scores that pass faceScore > 0.6 in detectFacesAtScale
ScoredCandidates ==
    [score : {61, 80, 100}, sizeRatio : SizeRatios, offset : {0, 100, 200},
     sharpness : {0, 50, 100}, lighting : {0, 15, 100}]

InitScore ==
    /\ PageConstructed
    /\ watched = FALSE
    /\ ShouldIdle /\ PoseIdle /\ DetectIdle
    /\ NmsIdle /\ HeadIdle /\ MediaIdle /\ ApiIdle
    /\ pcScore = "call"
    /\ candidate \in ScoredCandidates
    /\ scored = NoScored

callScoreFace ==
    /\ pcScore = "call"
    /\ pcScore' = "done"
    /\ scored' = scoreFace(candidate)
    /\ UNCHANGED << pageVars, now, loopVars, callVars, serverVars, histVars,
                    event, watched, shouldVars, poseVars, detectVars, nmsVars,
                    candidate, headVars, mediaVars, apiVars >>

NextScore == callScoreFace

SpecScore == InitScore /\ [][NextScore]_vars

(***************************************************************************)
(* estimateHeadPose.  Landmark coordinates count in twentieths of a pixel, *)
(* angles in 1/PoseScale degree; the boxes drawn make every division come  *)
(* out even.                                                               *)
(***************************************************************************)
extractFacialLandmarks(x, y, w, h) ==
    [leftEye |-> [x |-> 20 * x + 6 * w, y |-> 20 * y + 7 * h],
     rightEye |-> [x |-> 20 * x + 14 * w, y |-> 20 * y + 7 * h],
     nose |-> [x |-> 20 * x + 10 * w, y |-> 20 * y + 10 * h],
     mouth |-> [x |-> 20 * x + 10 * w, y |-> 20 * y + 14 * h]]

estimateHeadPose(f) ==
    LET features == extractFacialLandmarks(f.x, f.y, f.width, f.height)
        eyeDistance == features.rightEye.x - features.leftEye.x
        expectedEyeDistance == 8 * f.width
        \* horizontalOffset * 45
        baseYaw == (Degrees(YawLimit) * (2 * f.x + f.width - f.frameWidth))
                       \div f.frameWidth
        turned == 10 * eyeDistance < 8 * expectedEyeDistance
        yawed == IF turned
                 THEN baseYaw + (IF baseYaw > 0 THEN Degrees(15) ELSE -Degrees(15))
                 ELSE baseYaw
        eyeToNoseDistance == features.nose.y - features.leftEye.y
        noseToMouthDistance == features.mouth.y - features.nose.y
        \* verticalOffset * 30
        basePitch == (Degrees(PitchLimit) * (2 * f.y + f.height - f.frameHeight))
                         \div f.frameHeight
        both == eyeToNoseDistance + noseToMouthDistance
        pitched == IF 10 * eyeToNoseDistance > 7 * both THEN basePitch - Degrees(10)
                   ELSE IF 10 * eyeToNoseDistance < 5 * both
                   THEN basePitch + Degrees(10)
                   ELSE basePitch
    IN  [yaw |-> Max(-Degrees(YawLimit), Min(Degrees(YawLimit), yawed)),
         pitch |-> Max(-Degrees(PitchLimit), Min(Degrees(PitchLimit), pitched))]

\* squares of one size on the canvas setupCanvas makes of a 4:3 video, at
\* places that make the two offsets whole numbers of 1/PoseScale degree
HeadFaces ==
    {[x |-> 8 * i, y |-> 9 * j, width |-> FaceSize, height |-> FaceSize,
      frameWidth |-> CanvasWidth, frameHeight |-> CanvasHeight] :
        i \in 0..((CanvasWidth - FaceSize) \div 8),
        j \in 0..((CanvasHeight - FaceSize) \div 9)}

InitHead ==
    /\ PageConstructed
    /\ watched = FALSE
    /\ ShouldIdle /\ PoseIdle /\ DetectIdle
    /\ NmsIdle /\ ScoreIdle /\ MediaIdle /\ ApiIdle
    /\ pcHead = "call"
    /\ face \in HeadFaces
    /\ headPose = [yaw |-> 0, pitch |-> 0, poseBucket |-> NoBucket]

\* analyzeFrame from estimateHeadPose to classifyPose
callEstimateHeadPose ==
    /\ pcHead = "call"
    /\ pcHead' = "done"
    /\ LET estimate == estimateHeadPose(face)
       IN  headPose' = [yaw |-> estimate.yaw, pitch |-> estimate.pitch,
                        poseBucket |-> classifyPose(estimate.yaw, estimate.pitch)]
    /\ UNCHANGED << pageVars, now, loopVars, callVars, serverVars, histVars,
                    event, watched, shouldVars, poseVars, detectVars, nmsVars,
                    scoreVars, face, mediaVars, apiVars >>

NextHead == callEstimateHeadPose

SpecHead == InitHead /\ [][NextHead]_vars

(***************************************************************************)
(* StorageService and the media capture page.  capturedMedia is the array  *)
(* of the service, recordId the field of the page that is open ("" before  *)
(* any is).  An item carries, beside its type, file and recordId, the      *)
(* record the page was opened for when the item was added (capturedFor),   *)
(* which no code reads.                                                    *)
(***************************************************************************)
Records == {"A", "B"}

MediaTypes == {"photo", "video"}

\* the indices in the store of the items the page shows, in order
RecordMedia == {i \in 1..Len(capturedMedia) : capturedMedia[i].recordId = recordId}

\* a file not among the stored ones
NewFile == CHOOSE n \in 1..MaxMedia :
               /\ \A i \in 1..Len(capturedMedia) : capturedMedia[i].file # n
               /\ \A m \in 1..(n - 1) :
                     \E i \in 1..Len(capturedMedia) : capturedMedia[i].file = m

\* StorageService.setMediaForRecord
setMediaForRecord(media, r) ==
    [i \in 1..Len(media) |-> [media[i] EXCEPT !.recordId = r]]

\* StorageService.removeMedia: splice(index, 1), index counted from 1
spliceOne(media, index) ==
    SubSeq(media, 1, index - 1) \o SubSeq(media, index + 1, Len(media))

ngOnInit(r) ==
    /\ recordId' = r
    /\ capturedMedia' = setMediaForRecord(capturedMedia, r)
    /\ UNCHANGED << pageVars, now, loopVars, callVars, serverVars, histVars,
                    event, watched, shouldVars, poseVars, detectVars, nmsVars,
                    scoreVars, headVars, apiVars >>

\* takePhoto and takeVideo, the camera having delivered
takeMedia(type) ==
    /\ recordId # ""
    /\ Len(capturedMedia) < MaxMedia
    /\ capturedMedia' = Append(capturedMedia,
                               [type |-> type, file |-> NewFile,
                                recordId |-> recordId, capturedFor |-> recordId])
    /\ UNCHANGED << pageVars, now, loopVars, callVars, serverVars, histVars,
                    event, watched, shouldVars, poseVars, detectVars, nmsVars,
                    scoreVars, headVars, recordId, apiVars >>

takePhoto == takeMedia("photo")

takeVideo == takeMedia("video")

\* removeMedia of the page for the index-th item it shows
removeMedia(index) ==
    /\ recordId # ""
    /\ index <= Cardinality(RecordMedia)
    /\ LET globalIndex ==
               CHOOSE i \in RecordMedia :
                   Cardinality({j \in RecordMedia : j <= i}) = index
       IN  capturedMedia' = spliceOne(capturedMedia, globalIndex)
    /\ UNCHANGED << pageVars, now, loopVars, callVars, serverVars, histVars,
                    event, watched, shouldVars, poseVars, detectVars, nmsVars,
                    scoreVars, headVars, recordId, apiVars >>

\* the response to the upload of performUpload
uploadResponse ==
    /\ recordId # ""
    /\ RecordMedia # {}
    /\ capturedMedia' = << >>
    /\ UNCHANGED << pageVars, now, loopVars, callVars, serverVars, histVars,
                    event, watched, shouldVars, poseVars, detectVars, nmsVars,
                    scoreVars, headVars, recordId, apiVars >>

NextMedia ==
    \/ \E r \in Records : ngOnInit(r)
    \/ takePhoto
    \/ takeVideo
    \/ \E index \in 1..MaxMedia : removeMedia(index)
    \/ uploadResponse

SpecMedia == Init /\ [][NextMedia]_vars

(***************************************************************************)
(* ApiService.get and post with their retry operator, and the online flag  *)
(* of NetworkService.  request is the one subscription followed: `sent`    *)
(* counts the HTTP requests issued for it, `retried` the errors the retry  *)
(* operator has answered with a delay, `error` is the last error.          *)
(***************************************************************************)
\* what the HTTP client and the timeout operator raise: an HttpErrorResponse
\* with its status, or a TimeoutError, which has none
HttpErrors ==
    [name : {"HttpErrorResponse"}, status : {0, 400, 404, 500, 503}]
        \cup {[name |-> "TimeoutError", status |-> -1]}

\* NetworkService.isNetworkError; the code, message and name it also tests
\* are those of neither kind of error
isNetworkError(online, e) ==
    ~online \/ (e.name = "HttpErrorResponse" /\ e.status = 0)

isServerError(e) ==
    e.name = "HttpErrorResponse" /\ e.status >= 500 /\ e.status < 600

online ==
    /\ isOnline' = TRUE
    /\ UNCHANGED << pageVars, now, loopVars, callVars, serverVars, histVars,
                    event, watched, shouldVars, poseVars, detectVars, nmsVars,
                    scoreVars, headVars, mediaVars, request >>

offline ==
    /\ isOnline' = FALSE
    /\ UNCHANGED << pageVars, now, loopVars, callVars, serverVars, histVars,
                    event, watched, shouldVars, poseVars, detectVars, nmsVars,
                    scoreVars, headVars, mediaVars, request >>

\* get or post subscribed to: the first HTTP request goes out
subscribe(method, retries) ==
    /\ request.state \in {"idle", "completed", "errored"}
    /\ request' = [method |-> method, retries |-> retries, state |-> "sent",
                   sent |-> 1, error |-> [name |-> "none", status |-> 0],
                   retried |-> 0]
    /\ UNCHANGED << pageVars, now, loopVars, callVars, serverVars, histVars,
                    event, watched, shouldVars, poseVars, detectVars, nmsVars,
                    scoreVars, headVars, mediaVars, isOnline >>

get(retries) == subscribe("get", retries)

post(retries) == subscribe("post", retries)

\* the HTTP request is answered with a 2xx
respond ==
    /\ request.state = "sent"
    /\ request' = [request EXCEPT !.state = "completed"]
    /\ UNCHANGED << pageVars, now, loopVars, callVars, serverVars, histVars,
                    event, watched, shouldVars, poseVars, detectVars, nmsVars,
                    scoreVars, headVars, mediaVars, isOnline >>

\* the HTTP request fails with e: the retry operator, its count not used up,
\* asks the delay function, which starts a timer or throws
fail(e) ==
    /\ request.state = "sent"
    /\ request' =
           IF request.retried < request.retries
                 /\ (isNetworkError(isOnline, e) \/ isServerError(e))
           THEN [request EXCEPT !.state = "waiting", !.error = e,
                                !.retried = @ + 1]
           ELSE [request EXCEPT !.state = "errored", !.error = e]
    /\ UNCHANGED << pageVars, now, loopVars, callVars, serverVars, histVars,
                    event, watched, shouldVars, poseVars, detectVars, nmsVars,
                    scoreVars, headVars, mediaVars, isOnline >>

\* the timer of the delay function fires: the request is issued again
resubscribe ==
    /\ request.state = "waiting"
    /\ request' = [request EXCEPT !.state = "sent", !.sent = @ + 1]
    /\ UNCHANGED << pageVars, now, loopVars, callVars, serverVars, histVars,
                    event, watched, shouldVars, poseVars, detectVars, nmsVars,
                    scoreVars, headVars, mediaVars, isOnline >>

NextApi ==
    \/ online
    \/ offline
    \/ \E retries \in 0..MaxRetries : get(retries)
    \/ \E retries \in 0..MaxRetries : post(retries)
    \/ respond
    \/ \E e \in HttpErrors : fail(e)
    \/ resubscribe

SpecApi == Init /\ [][NextApi]_vars

(***************************************************************************)
(* Events of a step.                                                       *)
(***************************************************************************)
\* an uploadFrame request u is issued by the step
Issued(u) == CopiesIn(u, uploads') > CopiesIn(u, uploads) /\ u.res = "pending"

\* the response (or failure) of upload u is handled by the step
Handled(u) ==
    /\ CopiesIn(u, uploads) > CopiesIn(u, uploads')
    /\ BagCardinality(uploads') < BagCardinality(uploads)

\* the response of upload u is handled as an acceptance by the step
HandledAccepted(u) == Handled(u) /\ u.res \in {"accepted", "completed"}

\* onEnrollmentComplete starts to run in the step
Completes == completePending' < completePending

AllFive == \A b \in Buckets : poseProgress[b]

(***************************************************************************)
(* The claims.                                                             *)
(***************************************************************************)

\* C1: while a session is Active, two uploadFrame calls for the same bucket
\* are never issued less than CAPTURE_COOLDOWN ms apart.
C1_CooldownBetweenUploads ==
    [][\A u \in BagToSet(uploads') :
          Issued(u) =>
              \/ issueTime[u.bucket] = 0
              \/ now - issueTime[u.bucket] >= CAPTURE_COOLDOWN]_vars

\* C2: at any time at most one uploadFrame call per bucket is outstanding.
C2_OneOutstandingPerBucket ==
    \A u, v \in BagToSet(uploads) :
        u.bucket = v.bucket => (u = v /\ CopiesIn(u, uploads) = 1)

\* C3: an uploadFrame response handled after the controller has left Active
\* changes nothing: PoseProgress is kept and no completion is triggered.
C3_LateResponseIsNoOp ==
    [][\A u \in BagToSet(uploads) :
          (Handled(u) /\ ~active) =>
              /\ poseProgress' = poseProgress
              /\ completePending' = completePending
              /\ completing' = completing]_vars

\* C4: once the cancellation of a session has set active = false, no
\* uploadFrame call is issued for that session.
C4_NoUploadAfterCancel ==
    [][\A u \in BagToSet(uploads') : Issued(u) => u.sid \notin cancelBegun]_vars

\* C5: after a cancellation of an Active session has finished, PoseProgress
\* and CooldownLedger are empty and the session id is cleared until
\* startCapture is called again.
C5_CancelledStaysClean ==
    cancelFinished =>
        /\ poseProgress = NoProgress
        /\ lastCaptureTime = NoLedger
        /\ sessionId = 0

\* C6: onEnrollmentComplete runs only when PoseProgress holds all five
\* buckets.
C6_CompleteOnlyWithAllFive == [][Completes => AllFive]_vars

\* C7: the controller is never Active with all five buckets marked and no
\* upload outstanding.
C7_AllFiveMeansNotActive == ~(active /\ AllFive /\ uploads = EmptyBag)

\* C8: a bucket is marked only by handling the accepted response of an
\* uploadFrame call for that bucket that was issued in the current session.
C8_MarkedOnlyByOwnAcceptance ==
    [][\A b \in Buckets :
          (poseProgress'[b] /\ ~poseProgress[b]) =>
              \E u \in BagToSet(uploads) :
                  /\ HandledAccepted(u)
                  /\ u.bucket = b
                  /\ active
                  /\ sessionId # 0
                  /\ u.sid = sessionId]_vars

\* C9: once a bucket is marked, no later uploadFrame response for it is
\* handled as an acceptance.
C9_AcceptedOncePerBucket ==
    [][\A u \in BagToSet(uploads) :
          HandledAccepted(u) => ~poseProgress[u.bucket]]_vars

\* C10: shouldCapturePose returns false whenever faceCount is not 1.
C10_NotOneFaceNoCapture ==
    (pcShould = "done" /\ currentDetection.faceCount # 1) => ~shouldCapture

\* C10 witness: two faces, everything else in order, and the answer is no
C10_Witness ==
    /\ pcShould = "done"
    /\ currentDetection = [Qualifying("LEFT") EXCEPT !.faceCount = 2]
    /\ poseProgress = NoProgress
    /\ lastCaptureTime = NoLedger
    /\ ~shouldCapture

\* C11: no uploadFrame call is issued for a bucket that is marked in
\* PoseProgress, whatever the detection of the tick and the cooldown.
C11_MarkedBucketNotUploaded ==
    [][\A u \in BagToSet(uploads') :
          Issued(u) => ~poseProgress[u.bucket]]_vars

\* C11 witness: LEFT was uploaded at StartTime and is marked; FRONT was
\* uploaded a cooldown later, by a tick that showed FRONT; the tick after that
\* one showed LEFT again with the cooldown of LEFT over, and left the ledger
\* entry of LEFT as it was: it did not upload
C11_Witness ==
    /\ active
    /\ poseProgress["LEFT"]
    /\ currentDetection = Qualifying("LEFT")
    /\ lastCaptureTime["LEFT"] = StartTime
    /\ lastCaptureTime["FRONT"] = StartTime + CAPTURE_COOLDOWN
    /\ now = StartTime + CAPTURE_COOLDOWN
    /\ pendingTicks = 0

\* the seven conditions of the specification
SevenConditions(det, progress, ledger, t) ==
    /\ det.faceCount = 1
    /\ det.poseBucket # NoBucket
    /\ det.faceConfidence >= MIN_FACE_CONFIDENCE
    /\ det.faceInFrame
    /\ det.quality >= MIN_QUALITY_THRESHOLD
    /\ ~progress[det.poseBucket]
    /\ \/ ledger[det.poseBucket] = 0
       \/ t - ledger[det.poseBucket] >= CAPTURE_COOLDOWN

C13_LedgerWrittenWithUpload ==
    [][/\ \A u \in BagToSet(uploads') :
            Issued(u) => lastCaptureTime'[u.bucket] = now
       /\ \A u \in BagToSet(uploads) :
            Handled(u) => lastCaptureTime' = lastCaptureTime]_vars

\* C13 witness: an upload was rejected or has failed a cooldown ago, and the
\* ledger still holds the time at which it was issued
C13_Witness ==
    /\ active
    /\ lastOutcome["FRONT"] \in {"rejected", "failed"}
    /\ lastCaptureTime["FRONT"] = StartTime
    /\ now = StartTime + CAPTURE_COOLDOWN
    /\ uploads = EmptyBag

\* the setTimeout callback of a tick runs while Active on a detection that
\* passes every gate of the detection itself, for bucket b
TickOn(b) ==
    /\ pendingTicks' < pendingTicks
    /\ active
    /\ currentDetection' = Qualifying(b)

\* an uploadFrame request for bucket b is issued by the step
IssuedFor(b) == \E u \in BagToSet(uploads') : Issued(u) /\ u.bucket = b

\* the step handles the end of the attempts for bucket b as `how`
EndedNow(b, how) == lastOutcome'[b] = how /\ lastOutcome[b] # how

\* C14: handling accepted = false leaves PoseProgress, active and the session
\* id as they are, and a qualifying tick for the rejected bucket uploads again
\* exactly when CAPTURE_COOLDOWN ms have passed since the attempt was issued.
C14_RejectedThenRetried ==
    [][\A b \in Buckets :
          /\ EndedNow(b, "rejected") =>
                /\ poseProgress' = poseProgress
                /\ active' = active
                /\ sessionId' = sessionId
          /\ (TickOn(b) /\ lastOutcome[b] = "rejected" /\ ~poseProgress[b]) =>
                (IssuedFor(b) <=> now - issueTime[b] >= CAPTURE_COOLDOWN)]_vars

\* C15: a failed uploadFrame call is reported with an error toast and leaves
\* PoseProgress, active, the session id and the tick loop as they are, and a
\* qualifying tick for the bucket uploads again exactly when CAPTURE_COOLDOWN
\* ms have passed since the failed attempt was issued.
C15_FailedThenRetried ==
    [][/\ (event'.what = "failure" /\ event'.from = "capturePoseFrame") =>
            /\ event'.color = "danger"
            /\ BagCardinality(uploads') < BagCardinality(uploads)
            /\ poseProgress' = poseProgress
            /\ active' = active
            /\ sessionId' = sessionId
            /\ timers' = timers
            /\ analysisInterval' = analysisInterval
       /\ \A b \in Buckets :
            (TickOn(b) /\ lastOutcome[b] = "failed" /\ ~poseProgress[b]) =>
                (IssuedFor(b) <=> now - issueTime[b] >= CAPTURE_COOLDOWN)]_vars

\* the initializeEnrollment call of startCapture call i fails in the step
InitFailedNow(i) == starts[i] = "init" /\ starts'[i] = "done"

\* no initializeEnrollment call has succeeded so far
NoSessionYet == \A i \in Sessions : serverStatus[i] = "none"

\* C16: a failed session initialization leaves active, the session id, the
\* tick loop, the camera and the uploads as they are, and as long as no
\* initialization has succeeded the controller is not Active, holds no
\* session id, runs no tick loop and has issued no uploadFrame call.
C16_InitFailureStaysIdle ==
    /\ [](NoSessionYet =>
            /\ ~active
            /\ sessionId = 0
            /\ analysisInterval = 0
            /\ timers = {}
            /\ uploads = EmptyBag)
    /\ [][\A i \in Sessions :
            InitFailedNow(i) =>
                /\ active' = active
                /\ sessionId' = sessionId
                /\ analysisInterval' = analysisInterval
                /\ timers' = timers
                /\ stream' = stream
                /\ uploads' = uploads]_vars

\* C16 witness: the initialization has just failed, the error was shown, and
\* the controller is idle
C16_Witness ==
    /\ starts[1] = "done"
    /\ NoSessionYet
    /\ event.what = "failure"
    /\ event.from = "startCapture"
    /\ event.color = "danger"
    /\ ~active
    /\ sessionId = 0

\* C17: every failure of a protocol call, except that of the cancel issued by
\* cleanupCapture, is followed by an error message shown to the user.
C17_EveryFailureShown ==
    [][(event'.what = "failure" /\ event'.from # "cleanupCapture") =>
          /\ event'.message = "error.message"
          /\ event'.color = "danger"]_vars

\* cleanupCapture sends its cancelEnrollment request in the step
CleanupCancelBegun ==
    \E c \in BagToSet(cancels') :
        c.kind = "cleanup" /\ CopiesIn(c, cancels') > CopiesIn(c, cancels)

\* cleanupCapture resumes after its cancelEnrollment request in the step
CleanupCancelEnded ==
    \E c \in BagToSet(cancels) :
        c.kind = "cleanup" /\ CopiesIn(c, cancels) > CopiesIn(c, cancels')

C19_CompletedClosesSession ==
    [][/\ Completes =>
            /\ ~active'
            /\ analysisInterval' = 0
            /\ ~stream'
            /\ sessionId # 0
            /\ completing' = completing + 1
       /\ \A u \in BagToSet(uploads') :
            (Issued(u) /\ u.sid \in Sessions) =>
                serverStatus[u.sid] # "completed"]_vars

\* the controller becomes Active in the step
BecomesActive == active' /\ ~active

\* C20: when a session becomes Active, PoseProgress has no bucket marked and
\* CooldownLedger is empty.
C20_ActiveStartsClean ==
    [][BecomesActive =>
          /\ poseProgress' = NoProgress
          /\ lastCaptureTime' = NoLedger]_vars

(***************************************************************************)
(* Claims about classifyPose and analyzeFrame.                             *)
(***************************************************************************)
\* buckets whose range condition holds for the pair classified
Matching == {b \in Buckets : InRange(b, yaw, pitch)}

\* C21, as stated: classifyPose is a total, deterministic function over
\* yaw in [-45, 45] and pitch in [-30, 30], and no pair satisfies the range
\* conditions of two different buckets.
C21_RangesPairwiseDisjoint ==
    pcPose = "done" /\ detector = "heuristic" =>
        /\ poseBucket \in Buckets \cup {NoBucket}
        /\ Cardinality(Matching) <= 1

\* C21, as the code has it: classifyPose returns one bucket or none for every
\* pair; FRONT shares no pair with another bucket, nor LEFT with RIGHT, nor
\* UP with DOWN; a pair in two ranges is in that of LEFT or RIGHT and in that
\* of UP or DOWN, and LEFT or RIGHT is returned for it.
C21_TotalAndSidesBeforeUpDown ==
    pcPose = "done" /\ detector = "heuristic" =>
        /\ poseBucket \in Buckets \cup {NoBucket}
        /\ poseBucket # NoBucket => poseBucket \in Matching
        /\ poseBucket = NoBucket => Matching = {}
        /\ Cardinality(Matching) > 1 =>
              /\ Cardinality(Matching) = 2
              /\ Cardinality(Matching \cap {"LEFT", "RIGHT"}) = 1
              /\ Cardinality(Matching \cap {"UP", "DOWN"}) = 1
              /\ poseBucket \in {"LEFT", "RIGHT"}

C21_Witness ==
    /\ pcPose = "done"
    /\ detector = "heuristic"
    /\ yaw = Degrees(-15)
    /\ pitch = Degrees(-10)
    /\ Matching = {"LEFT", "UP"}
    /\ poseBucket = "LEFT"

\* C22, as stated: classifyPose maps (0, 0) to FRONT, (-20, 0) to LEFT,
\* (20, 0) to RIGHT, (0, -15) to UP, (0, 15) to DOWN and (10, 10) to none.
C22_ScenarioPoses ==
    pcPose = "done" /\ detector = "heuristic" =>
        /\ yaw = 0 /\ pitch = 0 => poseBucket = "FRONT"
        /\ yaw = Degrees(-20) /\ pitch = 0 => poseBucket = "LEFT"
        /\ yaw = Degrees(20) /\ pitch = 0 => poseBucket = "RIGHT"
        /\ yaw = 0 /\ pitch = Degrees(-15) => poseBucket = "UP"
        /\ yaw = 0 /\ pitch = Degrees(15) => poseBucket = "DOWN"
        /\ yaw = Degrees(10) /\ pitch = Degrees(10) => poseBucket = NoBucket

\* C22, as the code has it: the five poses of the scenario are classified as
\* stated; (10, 10) is in the range of DOWN and is classified DOWN; (10, 0)
\* is in no range and is classified none.
C22_ScenarioPosesTenTenDown ==
    pcPose = "done" /\ detector = "heuristic" =>
        /\ yaw = 0 /\ pitch = 0 => poseBucket = "FRONT"
        /\ yaw = Degrees(-20) /\ pitch = 0 => poseBucket = "LEFT"
        /\ yaw = Degrees(20) /\ pitch = 0 => poseBucket = "RIGHT"
        /\ yaw = 0 /\ pitch = Degrees(-15) => poseBucket = "UP"
        /\ yaw = 0 /\ pitch = Degrees(15) => poseBucket = "DOWN"
        /\ yaw = Degrees(10) /\ pitch = Degrees(10) => poseBucket = "DOWN"
        /\ yaw = Degrees(10) /\ pitch = 0 => poseBucket = NoBucket

C22_Witness ==
    /\ pcPose = "done"
    /\ detector = "heuristic"
    /\ yaw = Degrees(10)
    /\ pitch = Degrees(10)
    /\ poseBucket = "DOWN"

\* the ranges of the buckets as the claim lists them
ListedRange(b, y, p) ==
    CASE b = "FRONT" -> /\ Degrees(-8) <= y /\ y <= Degrees(8)
                        /\ Degrees(-6) <= p /\ p <= Degrees(6)
      [] b = "LEFT"  -> /\ Degrees(-35) <= y /\ y <= Degrees(-12)
                        /\ Degrees(-15) <= p /\ p <= Degrees(15)
      [] b = "RIGHT" -> /\ Degrees(12) <= y /\ y <= Degrees(35)
                        /\ Degrees(-15) <= p /\ p <= Degrees(15)
      [] b = "UP"    -> /\ Degrees(-30) <= p /\ p <= Degrees(-8)
                        /\ Degrees(-20) <= y /\ y <= Degrees(20)
      [] b = "DOWN"  -> /\ Degrees(8) <= p /\ p <= Degrees(25)
                        /\ Degrees(-20) <= y /\ y <= Degrees(20)

\* the first bucket in the order FRONT, LEFT, RIGHT, UP, DOWN whose listed
\* range contains the pair, none if no range does
FirstListed(y, p) ==
    LET hits == {k \in 1..Len(PoseOrder) : ListedRange(PoseOrder[k], y, p)}
    IN  IF hits = {} THEN NoBucket
        ELSE PoseOrder[CHOOSE k \in hits : \A j \in hits : k <= j]

\* C31: for every (yaw, pitch), classifyPose of either service returns the
\* first bucket in the order FRONT, LEFT, RIGHT, UP, DOWN whose listed range
\* contains the pair, and none exactly when no listed range contains it.
C31_FirstListedBucket ==
    pcPose = "done" => poseBucket = FirstListed(yaw, pitch)

\* the frame has a size (and the ML Kit service runs on a native platform)
FrameTaken ==
    /\ scan.videoWidth # 0
    /\ scan.videoHeight # 0
    /\ detector = "mlkit" => scan.native

\* the candidates the detector is left with: those of the scan, none when
\* the frame is not taken or the detector throws before it has them
Candidates ==
    IF FrameTaken /\ scan.fails \notin {"draw", "detect"}
    THEN scan.faces ELSE << >>

\* exactly one candidate, of confidence >= 0.9
OneConfident ==
    /\ Len(Candidates) = 1
    /\ Candidates[1] >= FaceDetection_MIN_FACE_CONFIDENCE

\* the detector throws while it handles the frame
ErrorRaised ==
    /\ FrameTaken
    /\ \/ scan.fails \in {"draw", "detect"}
       \/ /\ scan.fails = "pose"
          /\ IF detector = "heuristic" THEN OneConfident
                                       ELSE Len(Candidates) = 1

\* pose, angles and quality of the result are those of no detection
Zeroed(r) ==
    r.poseBucket = NoBucket /\ r.yaw = 0 /\ r.pitch = 0 /\ r.quality = 0

\* C23: when detection leaves two or more candidates, the result has
\* faceDetected = true, faceCount = the number of candidates, poseBucket none
\* and yaw, pitch and quality 0.
C23_ManyFacesDetectedAndZeroed ==
    pcDetect = "done" /\ Len(Candidates) >= 2 =>
        /\ analysis.result.faceDetected
        /\ analysis.result.faceCount = Len(Candidates)
        /\ Zeroed(analysis.result)

\* C24: analyzeFrame of the heuristic detector gives pose, angles or quality
\* only if exactly one candidate remains and its confidence is >= 0.9;
\* otherwise the result is zeroed, faceCount is the number of candidates and
\* shouldCapturePose is false for it whatever the progress and the ledger.
C24_UsableOnlyIfOneConfident ==
    pcDetect = "done" /\ detector = "heuristic" =>
        /\ ~Zeroed(analysis.result) => OneConfident
        /\ ~OneConfident =>
              /\ Zeroed(analysis.result)
              /\ analysis.result.faceCount = Len(Candidates)
              /\ \A progress \in ShouldProgress, ledger \in ShouldLedgers :
                    ~shouldCapturePose(analysis.result, progress, ledger, now)

C24_Witness ==
    /\ pcDetect = "done"
    /\ detector = "heuristic"
    /\ Candidates = << FaceDetection_MIN_FACE_CONFIDENCE - 2 >>
    /\ scan.yaw = 0 /\ scan.pitch = 0
    /\ scan.quality = MIN_QUALITY_THRESHOLD
    /\ scan.inFrame
    /\ analysis.result.faceCount = 1
    /\ Zeroed(analysis.result)

\* C25: analyzeFrame never throws; a frame of zero width or height gives the
\* empty result without scanning, and an error raised while the frame is
\* handled gives the empty result as well.
C25_NeverThrows ==
    pcDetect = "done" =>
        /\ analysis.ended = "returned"
        /\ scan.videoWidth = 0 \/ scan.videoHeight = 0 =>
              analysis.result = createEmptyResult /\ ~analysis.scanned
        /\ ErrorRaised => analysis.result = createEmptyResult

C25_Witness ==
    /\ pcDetect = "done"
    /\ detector = "heuristic"
    /\ ErrorRaised
    /\ scan.fails = "pose"
    /\ analysis.ended = "returned"
    /\ analysis.result = createEmptyResult

\* number of times candidate f occurs in the sequence fs
Copies(fs, f) == Cardinality({k \in 1..Len(fs) : fs[k] = f})

\* C32: nonMaximumSuppression returns a subset of its input in which no two
\* kept candidates overlap by more than 0.3; a candidate of the highest score
\* is kept, and every discarded candidate overlaps by more than 0.3 with a
\* kept candidate that scores at least as much.
C32_GreedySuppression ==
    pcNms = "done" =>
        /\ \A k \in 1..Len(keep) : Copies(keep, keep[k]) <= Copies(nmsFaces, keep[k])
        /\ \A i, j \in 1..Len(keep) :
              i # j => ~OverThreshold(calculateOverlap(keep[i], keep[j]))
        /\ nmsFaces # << >> =>
              \E k \in 1..Len(keep) :
                  \A i \in 1..Len(nmsFaces) : keep[k].score >= nmsFaces[i].score
        /\ \A i \in 1..Len(nmsFaces) :
              Copies(keep, nmsFaces[i]) < Copies(nmsFaces, nmsFaces[i]) =>
                  \E k \in 1..Len(keep) :
                      /\ OverThreshold(calculateOverlap(nmsFaces[i], keep[k]))
                      /\ keep[k].score >= nmsFaces[i].score

C32_Witness ==
    /\ pcNms = "done"
    /\ Len(nmsFaces) = 3
    /\ Len(keep) = 2
    /\ 10 * calculateOverlap(keep[1], keep[2])[1] = 3 * calculateOverlap(keep[1], keep[2])[2]
    /\ nmsFaces[1].score < nmsFaces[3].score

\* C33: faceInFrame is true only in a result for an accepted detection (one
\* face, detected) whose box clears the margin; never for a rejected detection
\* and never for a box that violates the margin.
C33_InFrameOnlyForAcceptedFace ==
    pcDetect = "done" =>
        (analysis.result.faceInFrame
            <=> /\ analysis.result.faceDetected
                /\ analysis.result.faceCount = 1
                /\ scan.inFrame)

C35_ConfidenceAndQualityInUnitInterval ==
    pcScore = "done" =>
        /\ scored.faceConfidence >= 0
        /\ scored.faceConfidence <= ConfidenceUnit
        /\ scored.quality >= 0
        /\ scored.quality <= QualityUnit

C35_Witness ==
    /\ pcScore = "done"
    /\ scored.valid
    /\ scored.sizeScore < OptimalRatio
    /\ scored.quality > 0
    /\ scored.quality < QualityUnit
    /\ scored.faceConfidence < ConfidenceUnit

\* the centre of the box is the centre of the frame
Centred ==
    /\ 2 * face.x + face.width = face.frameWidth
    /\ 2 * face.y + face.height = face.frameHeight

\* C36: for a face whose box centre is the frame centre, estimateHeadPose
\* returns yaw 0 and pitch 0, and the face is classified FRONT.
C36_CentredFaceIsFront ==
    (pcHead = "done" /\ Centred) =>
        /\ headPose.yaw = 0
        /\ headPose.pitch = 0
        /\ headPose.poseBucket = "FRONT"

\* C37: the recordId of a stored item is the record it was captured for,
\* whatever pages are opened and whatever is removed afterwards.
C37_RecordIdKept ==
    \A i \in 1..Len(capturedMedia) :
        capturedMedia[i].recordId = capturedMedia[i].capturedFor

\* C38: get and post issue a failed request again only after a network
\* error (status 0) or a server error (5xx), and at most `retries` times; a
\* 4xx is never retried, whether the device is online or offline.
C38_RetryOnlyNetworkOrServerError ==
    /\ request.state = "waiting" =>
          /\ request.error.name = "HttpErrorResponse"
          /\ request.error.status = 0
                \/ (request.error.status >= 500 /\ request.error.status < 600)
    /\ request.retried <= request.retries
    /\ request.sent <= request.retries + 1

(***************************************************************************)
(* Claims about the life of a session.                                     *)
(***************************************************************************)
\* a cancelEnrollment request for session s is sent by the step
CancelSent(s) ==
    \E c \in BagToSet(cancels') :
        c.sid = s /\ CopiesIn(c, cancels') > CopiesIn(c, cancels)

\* a completeEnrollment request is sent by the step (for the stored id)
CompleteSent == completing' > completing

\* C26: whenever the controller is Active the stored session id is the id of
\* a session the backend has opened, and every uploadFrame request carries
\* such an id, whatever resetCapture and cleanupCapture do while startCapture
\* awaits.
C26_ActiveHoldsSessionId ==
    /\ [](active => (sessionId \in Sessions /\ serverStatus[sessionId] # "none"))
    /\ [][\A u \in BagToSet(uploads') :
             Issued(u) => (u.sid \in Sessions /\ u.sid = sessionId)]_vars

\* C27: no cancelEnrollment request is sent for a session that
\* completeEnrollment has completed.
C27_NoCancelAfterComplete ==
    [][\A s \in Sessions :
          CancelSent(s) => serverStatus[s] # "completed"]_vars

\* startCapture is called again after the calls before it have ended, the
\* controller is not Active and no cancellation is outstanding
Retrying(i) ==
    /\ starts[i] = "init"
    /\ \A j \in Sessions \ {i} : starts[j] \in {"none", "done"}
    /\ ~active
    /\ cancels = EmptyBag

\* C28: when startCapture has failed after its initializeEnrollment call
\* succeeded and the user retries, the id of the first session is not
\* overwritten while the backend still holds that session open, so that a
\* later complete or cancel can close it.
C28_RetryKeepsOpenSession ==
    [][\A i, s \in Sessions :
          (Retrying(i) /\ sessionId = s /\ serverStatus[s] = "active")
              => sessionId' = s]_vars

\* C29: at most one interval timer is live at any time, and when the
\* controller leaves Active no timer created by the page keeps running.
C29_OneTimer ==
    /\ [](Cardinality(timers) <= 1)
    /\ [][(active /\ ~active') => timers' = {}]_vars

\* C30: for each session completeEnrollment is sent at most once and
\* cancelEnrollment at most once: none is sent while one for the same
\* session is outstanding or has been served.
C30_CloseSentOnce ==
    [][/\ \A s \in Sessions :
             CancelSent(s) => \A c \in BagToSet(cancels) : c.sid # s
       /\ CompleteSent => (completing = 0 /\ serverStatus[sessionId] # "completed")]_vars

====
